---- MODULE Spec2Model ----
(***************************************************************************)
(* A model of closest_go: the GJK / EPA measurement of the distance (or    *)
(* depth) between two convex hulls (Measure.go, vertex.go, face.go).       *)
(*                                                                         *)
(* Arithmetic.  The program computes on float64, and so does the model:    *)
(* every coordinate, weight and dot product is a float64 value, and every  *)
(* sum, difference, product and quotient is rounded to the nearest float64 *)
(* (to the even one when halfway), the operations in the order of the      *)
(* source and each rounded on its own (no fused multiply-add, as the       *)
(* compiler emits for amd64).  Distance is a square root, Direction.Len()  *)
(* or its negation: it is kept as its sign and the float64 the root is     *)
(* taken of, and the root itself (math.Sqrt rounds correctly) is computed  *)
(* only where a comparison of two distances needs it.                      *)
(*                                                                         *)
(* Indices (into a hull, into the simplex) are 0-based as in the program;  *)
(* the TLA+ sequences that hold the hulls and the simplex are 1-based.     *)
(***************************************************************************)
EXTENDS Integers, Sequences, FiniteSets, TLC

VARIABLES
    ConvexHulls,  \* Measure.ConvexHulls: <<hull 0, hull 1>>, sequences of points
    Distance,     \* Measure.Distance: [neg, sq], the value -sqrt(sq) or sqrt(sq)
    Direction,    \* Measure.Direction: a vector of three float64
    Points,       \* Measure.Points: two vectors
    Ons,          \* Measure.Ons: <<set of indices, set of indices>>
    simplex,      \* Measure.simplex: sequence of vertices
    faces,        \* the local variable faces of epa()
    pc,           \* where the running call stands: idle, gjk, epa, epaLoop, done, panic
    entry,        \* the entry point of the running (or last) call
    calls,        \* how many calls were made on this Measure
    prev,         \* outputs of the previous finished call (<<>> when there is none)
    shifted,      \* the caller translated hull 1 by -Direction after a call
    steps         \* how many steps the running (or last) call has made

vars == <<ConvexHulls, Distance, Direction, Points, Ons, simplex, faces, pc,
          entry, calls, prev, shifted, steps>>

-----------------------------------------------------------------------------
(* Bounds of the model *)

MaxHull0 == 3
MaxHull1 == 4
MaxCalls == 2
\* The steps one call may make (passes of its loops and the start of epa); far
\* more than any call on hulls of these sizes makes.
MaxSteps == 24
\* The greatest component of a direction given to newVertex on its own
MaxComponent == 1

\* The points the hulls are drawn from: a hull is a subsequence of its pool.
Pool0 == << <<1, 2, 1>>, <<1, 0, 2>>, <<2, 0, 0>>, <<1, 2, 0>> >>
Pool1 == << <<0, 0, 0>>, <<2, 0, 2>>, <<2, 0, 0>>, <<2, 2, 2>>, <<2, 2, 0>> >>

\* Directions a caller seeds Measure.Direction with (the zero value included).
SeedDirections == { <<0, 0, 0>>, <<1, 1, 1>> }

-----------------------------------------------------------------------------
(* Integers *)

Abs(x) == IF x < 0 THEN -x ELSE x

-----------------------------------------------------------------------------
(* Natural numbers of any size: the sequence of their digits in base
   BigBase, the least digit first, no zero digit at the end (0 is <<>>) *)

BigBase == 4096
BigBaseBits == 12

RECURSIVE Pow2(_)
Pow2(k) == IF k = 0 THEN 1 ELSE 2 * Pow2(k - 1)

RECURSIVE IntBitLength(_)
IntBitLength(n) == IF n = 0 THEN 0 ELSE 1 + IntBitLength(n \div 2)

RECURSIVE IntTrailingZeros(_)
IntTrailingZeros(n) == IF n % 2 = 1 THEN 0 ELSE 1 + IntTrailingZeros(n \div 2)

RECURSIVE BigTrim(_)
BigTrim(a) ==
    IF a # <<>> /\ a[Len(a)] = 0 THEN BigTrim(SubSeq(a, 1, Len(a) - 1)) ELSE a

RECURSIVE BigFromInt(_)
BigFromInt(n) == IF n = 0 THEN <<>> ELSE <<n % BigBase>> \o BigFromInt(n \div BigBase)

BigDigit(a, i) == IF i <= Len(a) THEN a[i] ELSE 0

RECURSIVE BigAddFrom(_, _, _, _)
BigAddFrom(a, b, i, carry) ==
    IF i > Len(a) /\ i > Len(b)
    THEN IF carry = 0 THEN <<>> ELSE <<carry>>
    ELSE <<(BigDigit(a, i) + BigDigit(b, i) + carry) % BigBase>>
         \o BigAddFrom(a, b, i + 1, (BigDigit(a, i) + BigDigit(b, i) + carry) \div BigBase)
BigAdd(a, b) == BigAddFrom(a, b, 1, 0)

\* a - b for a >= b
RECURSIVE BigSubFrom(_, _, _, _)
BigSubFrom(a, b, i, borrow) ==
    IF i > Len(a) THEN <<>>
    ELSE <<(BigDigit(a, i) - BigDigit(b, i) - borrow + BigBase) % BigBase>>
         \o BigSubFrom(a, b, i + 1,
                       IF BigDigit(a, i) - BigDigit(b, i) - borrow < 0 THEN 1 ELSE 0)
BigSub(a, b) == BigTrim(BigSubFrom(a, b, 1, 0))

\* -1, 0, 1 as a < b, a = b, a > b
RECURSIVE BigCmpAt(_, _, _)
BigCmpAt(a, b, i) ==
    IF i = 0 THEN 0
    ELSE IF a[i] < b[i] THEN -1
    ELSE IF a[i] > b[i] THEN 1
    ELSE BigCmpAt(a, b, i - 1)
BigCmp(a, b) ==
    IF Len(a) < Len(b) THEN -1
    ELSE IF Len(a) > Len(b) THEN 1
    ELSE BigCmpAt(a, b, Len(a))

\* a * k for 0 <= k < 2^18
RECURSIVE BigMulSmallFrom(_, _, _, _)
BigMulSmallFrom(a, k, i, carry) ==
    IF i > Len(a) THEN BigFromInt(carry)
    ELSE <<(a[i] * k + carry) % BigBase>>
         \o BigMulSmallFrom(a, k, i + 1, (a[i] * k + carry) \div BigBase)
BigMulSmall(a, k) == IF k = 0 THEN <<>> ELSE BigMulSmallFrom(a, k, 1, 0)

\* a * BigBase^n
RECURSIVE BigZeros(_)
BigZeros(n) == IF n = 0 THEN <<>> ELSE <<0>> \o BigZeros(n - 1)
BigShiftDigits(a, n) == IF a = <<>> THEN <<>> ELSE BigZeros(n) \o a

RECURSIVE BigMul(_, _)
BigMul(a, b) ==
    IF a = <<>> THEN <<>>
    ELSE BigAdd(BigMulSmall(b, a[1]), BigShiftDigits(BigMul(Tail(a), b), 1))

\* Quotient and remainder of a by d, 0 < d < 2^19; the digits from i down
RECURSIVE BigDivSmallAt(_, _, _, _)
BigDivSmallAt(a, d, i, rem) ==
    IF i = 0 THEN [q |-> <<>>, r |-> rem]
    ELSE LET lower == BigDivSmallAt(a, d, i - 1, (rem * BigBase + a[i]) % d)
         IN  [q |-> Append(lower.q, (rem * BigBase + a[i]) \div d), r |-> lower.r]
BigDivSmallTrimmed(qr) == [q |-> BigTrim(qr.q), r |-> qr.r]
BigDivSmall(a, d) == BigDivSmallTrimmed(BigDivSmallAt(a, d, Len(a), 0))

BigBitLength(a) ==
    IF a = <<>> THEN 0 ELSE (Len(a) - 1) * BigBaseBits + IntBitLength(a[Len(a)])

RECURSIVE BigTrailingZeros(_)
BigTrailingZeros(a) ==
    IF a[1] = 0 THEN BigBaseBits + BigTrailingZeros(Tail(a)) ELSE IntTrailingZeros(a[1])

\* a * 2^bits
BigShiftLeft(a, bits) ==
    BigShiftDigits(BigMulSmall(a, Pow2(bits % BigBaseBits)), bits \div BigBaseBits)

\* a \div 2^bits, and whether a bit that is 1 was shifted out (sticky)
BigDropped(a, n) == \E i \in 1..n : i <= Len(a) /\ a[i] # 0
BigShiftedRight(qr, dropped) == [q |-> qr.q, sticky |-> dropped \/ qr.r # 0]
BigShiftRight(a, bits) ==
    BigShiftedRight(BigDivSmall(SubSeq(a, bits \div BigBaseBits + 1, Len(a)),
                                Pow2(bits % BigBaseBits)),
                    BigDropped(a, bits \div BigBaseBits))

\* The integer square root of a and what is left, a = root^2 + rem, found
\* two digits of a at a time from the top: each pair gives one digit of the
\* root, the largest d with (2 * BigBase * root + d) * d no more than what is
\* left.  The digit is searched by halving, its upper half first.
SqrtSearchWidth == 64

RECURSIVE BigSqrtSearch(_, _, _, _, _, _)
BigSqrtSearch(rem, root2, base, step, lo, hi) ==
    IF lo = hi THEN base + lo * step
    ELSE IF BigCmp(BigMulSmall(BigAdd(root2, BigFromInt(base + ((lo + hi + 1) \div 2) * step)),
                           base + ((lo + hi + 1) \div 2) * step), rem) <= 0
    THEN BigSqrtSearch(rem, root2, base, step, (lo + hi + 1) \div 2, hi)
    ELSE BigSqrtSearch(rem, root2, base, step, lo, (lo + hi + 1) \div 2 - 1)

BigSqrtDigitFrom(rem, root2, upper) ==
    IF upper < 0 THEN 0 ELSE BigSqrtSearch(rem, root2, upper, 1, 0, SqrtSearchWidth - 1)

BigSqrtDigit(rem, root2) ==
    BigSqrtDigitFrom(rem, root2,
        BigSqrtSearch(rem, root2, 0, SqrtSearchWidth, 0, BigBase \div SqrtSearchWidth - 1))

BigSqrtWithDigit(sofar, rem, root2, d) ==
    IF d < 0 THEN sofar
    ELSE [root |-> BigTrim(<<d>> \o sofar.root),
          rem |-> BigSub(rem, BigMulSmall(BigAdd(root2, BigFromInt(d)), d))]

BigSqrtExtended(sofar, rem, root2) ==
    IF Len(rem) < 0 THEN sofar
    ELSE BigSqrtWithDigit(sofar, rem, root2, BigSqrtDigit(rem, root2))

BigSqrtExtend(sofar, hi, lo) ==
    IF Len(sofar.rem) < 0 THEN sofar
    ELSE BigSqrtExtended(sofar, BigTrim(<<lo, hi>> \o sofar.rem),
                         BigShiftDigits(BigMulSmall(sofar.root, 2), 1))

\* The root of the digits of a from 2 * k - 1 up
RECURSIVE BigSqrtFrom(_, _)
BigSqrtFrom(a, k) ==
    IF 2 * k - 1 > Len(a) THEN [root |-> <<>>, rem |-> <<>>]
    ELSE BigSqrtExtend(BigSqrtFrom(a, k + 1), BigDigit(a, 2 * k), a[2 * k - 1])

\* Quotient and remainder of n by d for a d of two digits or more, a digit
\* of n at a time from the top; a digit of the quotient is the largest q with
\* d * q no more than what is left, searched by halving.
RECURSIVE BigDivSearch(_, _, _, _)
BigDivSearch(rem, d, lo, hi) ==
    IF lo = hi THEN lo
    ELSE IF BigCmp(BigMulSmall(d, (lo + hi + 1) \div 2), rem) <= 0
    THEN BigDivSearch(rem, d, (lo + hi + 1) \div 2, hi)
    ELSE BigDivSearch(rem, d, lo, (lo + hi + 1) \div 2 - 1)

BigDivWithDigit(upper, rem, d, q) ==
    [q |-> BigTrim(<<q>> \o upper.q), r |-> BigSub(rem, BigMulSmall(d, q))]

BigDivDigit(upper, rem, d) ==
    BigDivWithDigit(upper, rem, d,
                    IF BigCmp(rem, d) < 0 THEN 0 ELSE BigDivSearch(rem, d, 1, BigBase - 1))

BigDivStep(upper, digit, d) == BigDivDigit(upper, BigTrim(<<digit>> \o upper.r), d)

RECURSIVE BigDivAt(_, _, _)
BigDivAt(n, d, i) ==
    IF i > Len(n) THEN [q |-> <<>>, r |-> <<>>]
    ELSE BigDivStep(BigDivAt(n, d, i + 1), n[i], d)

-----------------------------------------------------------------------------
(* float64: the value s * m * 2^e with s the sign, m a natural number of at
   most MantissaBits bits, odd unless the value is 0.  Results are rounded to
   the nearest such value, to the even mantissa when halfway.  The values that
   are no numbers have no mantissa either: NaN has the sign 0, an infinity the
   exponent 1.  The sign of a zero is not kept (the program never divides by
   a zero that could be -0.0: its divisors are sums of squares and sums that
   start from 0.0), and no value of the model is near the ends of the
   exponent range. *)

MantissaBits == 53

FloatZero == [s |-> 1, m |-> <<>>, e |-> 0]
FloatNaN == [s |-> 0, m |-> <<>>, e |-> 0]
FloatInf(s) == [s |-> s, m |-> <<>>, e |-> 1]

FloatIsNaN(a) == a.s = 0
FloatIsInf(a) == a.m = <<>> /\ a.e = 1
FloatIsZero(a) == a.m = <<>> /\ a.e = 0 /\ a.s = 1

\* -2, -1, 0, 1, 2 for -Inf, a negative number, 0, a positive number, +Inf
FloatRank(a) == IF a.m # <<>> THEN a.s ELSE 2 * a.s * a.e

\* s * n * 2^e with the factors 2 of n moved to the exponent; zeros of them
FloatCanonBy(s, n, e, zeros) == [s |-> s, m |-> BigShiftRight(n, zeros).q, e |-> e + zeros]
FloatCanon(s, n, e) ==
    IF n = <<>> THEN FloatZero ELSE FloatCanonBy(s, n, e, BigTrailingZeros(n))

\* r: n shifted right until MantissaBits + 1 bits are left; its last bit is
\* the first bit that is dropped (half), the bit before it the last one kept.
\* Rounded up when more than half is dropped, or half and the last bit kept
\* is 1; the mantissa comes back with the dropped bit cleared.
FloatRoundUp(q, sticky) == q[1] % 2 = 1 /\ (sticky \/ q[1] % 4 = 3)
FloatRounded(r, sticky) ==
    IF FloatRoundUp(r.q, r.sticky \/ sticky) THEN BigAdd(r.q, <<1>>)
    ELSE [r.q EXCEPT ![1] = @ - (@ % 2)]

\* The float64 nearest to s * n * 2^e (plus a fraction of 2^e when sticky);
\* drop: how many bits n has more than MantissaBits + 1
FloatRoundAt(s, n, e, sticky, drop) ==
    IF drop < 0 THEN FloatCanon(s, n, e)
    ELSE FloatCanon(s, FloatRounded(BigShiftRight(n, drop), sticky), e + drop)
FloatRound(s, n, e, sticky) ==
    FloatRoundAt(s, n, e, sticky, BigBitLength(n) - MantissaBits - 1)

\* k for an integer k
FloatFromInt(k) ==
    IF k = 0 THEN FloatZero
    ELSE [s |-> IF k < 0 THEN -1 ELSE 1,
          m |-> BigFromInt(Abs(k) \div Pow2(IntTrailingZeros(Abs(k)))),
          e |-> IntTrailingZeros(Abs(k))]

\* -a; NaN and 0 stay what they are
FloatNeg(a) == IF a.m = <<>> /\ a.e = 0 THEN a ELSE [a EXCEPT !.s = -a.s]

\* The sum of sa * na and sb * nb, times 2^e; c compares na with nb
FloatAddCompared(sa, na, sb, nb, e, c) ==
    FloatRound(IF c >= 0 THEN sa ELSE sb,
               IF sa = sb THEN BigAdd(na, nb)
               ELSE BigSub(IF c >= 0 THEN na ELSE nb, IF c >= 0 THEN nb ELSE na),
               e, FALSE)
FloatAddAligned(sa, na, sb, nb, e) == FloatAddCompared(sa, na, sb, nb, e, BigCmp(na, nb))

\* a + b when one of them is 0, an infinity or NaN
FloatAddSpecial(a, b) ==
    IF FloatIsNaN(a) \/ FloatIsNaN(b) THEN FloatNaN
    ELSE IF FloatIsInf(a) THEN (IF FloatIsInf(b) /\ a.s # b.s THEN FloatNaN ELSE a)
    ELSE IF FloatIsInf(b) THEN b
    ELSE IF a.m = <<>> THEN b
    ELSE a

FloatAdd(a, b) ==
    IF a.m = <<>> \/ b.m = <<>> THEN FloatAddSpecial(a, b)
    ELSE FloatAddAligned(a.s, BigShiftLeft(a.m, IF a.e < b.e THEN 0 ELSE a.e - b.e),
                         b.s, BigShiftLeft(b.m, IF a.e < b.e THEN b.e - a.e ELSE 0),
                         IF a.e < b.e THEN a.e ELSE b.e)

FloatSub(a, b) == FloatAdd(a, FloatNeg(b))

\* a * b when one of them is 0, an infinity or NaN
FloatMulSpecial(a, b) ==
    IF FloatIsNaN(a) \/ FloatIsNaN(b) THEN FloatNaN
    ELSE IF FloatIsInf(a) \/ FloatIsInf(b)
    THEN (IF FloatIsZero(a) \/ FloatIsZero(b) THEN FloatNaN ELSE FloatInf(a.s * b.s))
    ELSE FloatZero

FloatMul(a, b) ==
    IF a.m = <<>> \/ b.m = <<>> THEN FloatMulSpecial(a, b)
    ELSE FloatRound(a.s * b.s,
                    BigMul(IF Len(a.m) <= Len(b.m) THEN a.m ELSE b.m,
                           IF Len(a.m) <= Len(b.m) THEN b.m ELSE a.m),
                    a.e + b.e, FALSE)

\* a / b when one of them is 0, an infinity or NaN
FloatDivSpecial(a, b) ==
    IF FloatIsNaN(a) \/ FloatIsNaN(b) THEN FloatNaN
    ELSE IF FloatIsInf(a) THEN (IF FloatIsInf(b) THEN FloatNaN ELSE FloatInf(a.s * b.s))
    ELSE IF FloatIsZero(a) THEN (IF FloatIsZero(b) THEN FloatNaN ELSE FloatZero)
    ELSE IF FloatIsZero(b) THEN FloatInf(a.s)
    ELSE FloatZero

\* The quotient of the mantissas, that of a shifted left so far that the
\* quotient has more than MantissaBits + 1 bits
FloatQuotient(s, qr, e) == FloatRound(s, qr.q, e, qr.r # <<>>)

FloatDivSmall(qr) == [q |-> qr.q, r |-> BigFromInt(qr.r)]

FloatDivBy(a, b, n) ==
    FloatQuotient(a.s * b.s,
                  IF Len(b.m) = 1 THEN FloatDivSmall(BigDivSmall(BigShiftLeft(a.m, n), b.m[1]))
                  ELSE BigDivAt(BigShiftLeft(a.m, n), b.m, 1),
                  a.e - b.e - n)

FloatDiv(a, b) ==
    IF a.m = <<>> \/ b.m = <<>> THEN FloatDivSpecial(a, b)
    ELSE FloatDivBy(a, b, MantissaBits + 2 + BigBitLength(b.m) - BigBitLength(a.m))

\* math.Sqrt(a): the root of the mantissa shifted left so far that the root
\* has more than MantissaBits + 1 bits and the exponent left is even
FloatRoot(r, e) == FloatRound(1, r.root, e, r.rem # <<>>)
FloatSqrtShift(a, t) ==
    FloatRoot(BigSqrtFrom(BigShiftLeft(a.m, t + ((a.e - t) % 2)), 1),
              (a.e - t - ((a.e - t) % 2)) \div 2)
FloatSqrt(a) ==
    IF a.s = -1 THEN FloatNaN
    ELSE IF a.m = <<>> THEN a
    ELSE FloatSqrtShift(a, 2 * MantissaBits + 4 - BigBitLength(a.m))

\* The number of the first binary place above a (a is less than 2^FloatTop)
FloatTop(a) == a.e + BigBitLength(a.m)

\* a < b, false as soon as one side is NaN
FloatLess(a, b) ==
    IF a.m = <<>> \/ b.m = <<>>
    THEN ~FloatIsNaN(a) /\ ~FloatIsNaN(b) /\ FloatRank(a) < FloatRank(b)
    ELSE IF a.s # b.s THEN a.s < b.s
    ELSE IF FloatTop(a) # FloatTop(b) THEN (FloatTop(a) < FloatTop(b)) = (a.s = 1)
    ELSE BigCmp(BigShiftLeft(a.m, IF a.e < b.e THEN 0 ELSE a.e - b.e),
                BigShiftLeft(b.m, IF a.e < b.e THEN b.e - a.e ELSE 0)) = -a.s
-----------------------------------------------------------------------------
(* mgl64.Vec3 *)

\* 1.0 and -1.0
One == FloatFromInt(1)
MinusOne == FloatFromInt(-1)

\* x <= 0.0, x > 0.0 and x < 0.0 (all false of NaN); x == 0.0 is FloatIsZero(x)
LeZero(x) == x.s = -1 \/ FloatIsZero(x)
GtZero(x) == x.s = 1 /\ ~FloatIsZero(x)
LtZero(x) == x.s = -1

\* mgl64.Vec3{x, y, z} of three integers
Vec(p) == [i \in 1..3 |-> FloatFromInt(p[i])]
ZeroVec == <<FloatZero, FloatZero, FloatZero>>

Add(a, b) == [i \in 1..3 |-> FloatAdd(a[i], b[i])]
Sub(a, b) == [i \in 1..3 |-> FloatSub(a[i], b[i])]
Mul(a, c) == [i \in 1..3 |-> FloatMul(a[i], c)]

\* v1[0]*v2[0] + v1[1]*v2[1] + v1[2]*v2[2]: sum is the sum of the products
\* before the component i
RECURSIVE DotFrom(_, _, _, _)
DotFrom(a, b, i, sum) ==
    IF i > 3 THEN sum ELSE DotFrom(a, b, i + 1, FloatAdd(sum, FloatMul(a[i], b[i])))
Dot(a, b) == DotFrom(a, b, 2, FloatMul(a[1], b[1]))

\* The component i is v1[j]*v2[k] - v1[k]*v2[j] with j, k the components
\* that follow i in the cycle 1, 2, 3
Cross(a, b) ==
    [i \in 1..3 |-> FloatSub(FloatMul(a[(i % 3) + 1], b[((i + 1) % 3) + 1]),
                             FloatMul(a[((i + 1) % 3) + 1], b[(i % 3) + 1]))]

LenSqr(a) == Dot(a, a)

VecIsNaN(a) == \E i \in 1..3 : FloatIsNaN(a[i])

-----------------------------------------------------------------------------
(* vertex.go *)

\* The loop of getIndexOfMaxDotWithDirection from the vertex of index i on
\* (0-based); s is the dot product of that vertex
RECURSIVE MaxDotScan(_, _, _, _, _)
MaxDotStep(convex, direction, i, furthestIndex, maxS, s) ==
    IF FloatLess(maxS, s)
    THEN MaxDotScan(convex, direction, i + 1, i, s)
    ELSE MaxDotScan(convex, direction, i + 1, furthestIndex, maxS)
MaxDotScan(convex, direction, i, furthestIndex, maxS) ==
    IF i >= Len(convex) THEN furthestIndex
    ELSE MaxDotStep(convex, direction, i, furthestIndex, maxS,
                    Dot(convex[i + 1], direction))

\* A variant of getIndexOfMaxDotWithDirection in which the last of the
\* vertices with the greatest dot product wins (s >= maxS).
getIndexOfLastMaxDotWithDirection(convex, direction) ==
    IF VecIsNaN(direction) THEN 0
    ELSE CHOOSE i \in 0..(Len(convex) - 1) :
            /\ \A j \in 0..(Len(convex) - 1) :
                  ~FloatLess(Dot(convex[i + 1], direction), Dot(convex[j + 1], direction))
            /\ \A j \in (i + 1)..(Len(convex) - 1) :
                  FloatLess(Dot(convex[j + 1], direction), Dot(convex[i + 1], direction))

\* maxS starts from math.Inf(-1); with a NaN direction no s > maxS holds and
\* the index stays 0.
getIndexOfMaxDotWithDirection(convex, direction) ==
    MaxDotScan(convex, direction, 0, 0, FloatInf(-1))

newVertexOf(convexes, indices) ==
    [indices |-> indices,
     coordinate |-> Sub(convexes[2][indices[2] + 1], convexes[1][indices[1] + 1]),
     barycentricCoordinate |-> FloatZero]

\* Hull 1 is looked at along direction.Mul(-1.0).
newVertex(convexes, direction) ==
    newVertexOf(convexes,
                <<getIndexOfMaxDotWithDirection(convexes[1], direction),
                  getIndexOfMaxDotWithDirection(convexes[2], Mul(direction, MinusOne))>>)

-----------------------------------------------------------------------------
(* Measure.simplexHasCyclic *)

\* visited: the set of simplex positions (0-based) whose isVisited is set
RECURSIVE HasCyclicFrom(_, _, _, _, _)
HasCyclicFrom(S, i, j, visited, newI) ==
    IF newI >= Len(S) - 1 THEN FALSE
    ELSE IF newI \in visited THEN HasCyclicFrom(S, i, j, visited, newI + 1)
    ELSE IF S[newI + 1].indices[j + 1] # S[i + 1].indices[j + 1]
         THEN HasCyclicFrom(S, i, j, visited, newI + 1)
    ELSE LET newJ == (j + 1) % 2
         IN  IF S[Len(S)].indices[newJ + 1] = S[newI + 1].indices[newJ + 1] THEN TRUE
             ELSE IF HasCyclicFrom(S, newI, newJ, visited \cup {newI}, 0) THEN TRUE
             ELSE HasCyclicFrom(S, i, j, visited, newI + 1)

simplexHasCyclic(S, i, j) == HasCyclicFrom(S, i, j, {}, 0)

-----------------------------------------------------------------------------
(* Measure.updateSimplex *)

Weigh(vertex, w) == [vertex EXCEPT !.barycentricCoordinate = w]
Reduced(S) == [simplex |-> S, isDegenerated |-> FALSE, panic |-> FALSE]
Degenerated(S) == [simplex |-> S, isDegenerated |-> TRUE, panic |-> FALSE]

\* The coordinates of the simplex: a, b, c, d are p[1], p[2], p[3], p[4]
coordinates(S) == [k \in 1..Len(S) |-> S[k].coordinate]

\* case 2 from "u := b.Dot(ab)" on
updateSimplex2B(S, p, ab, u) ==
    IF LeZero(u) THEN Reduced(<<Weigh(S[2], One)>>)                       \* Region B
    ELSE Reduced(<<Weigh(S[1], u), Weigh(S[2], FloatNeg(Dot(p[1], ab)))>>)    \* Region AB
updateSimplex2(S, p) == updateSimplex2B(S, p, Sub(p[2], p[1]), Dot(p[2], Sub(p[2], p[1])))

\* case 3, statement after statement: each operator takes what the
\* statements before it computed.
\* Region AC and Region ABC
updateSimplex3AC(S, p, n, uAC, uABC, vAC, vABC) ==
    IF LeZero(vABC) /\ GtZero(uAC) /\ GtZero(vAC)
    THEN Reduced(<<Weigh(S[1], uAC), Weigh(S[3], vAC)>>)
    ELSE Reduced(<<Weigh(S[1], uABC), Weigh(S[2], vABC),
                   Weigh(S[3], Dot(Cross(p[1], p[2]), n))>>)

\* Region BC
updateSimplex3BC(S, p, e, n, u, vBC, uABC) ==
    IF LeZero(uABC) /\ GtZero(u.BC) /\ GtZero(vBC)
    THEN Reduced(<<Weigh(S[2], u.BC), Weigh(S[3], vBC)>>)
    ELSE updateSimplex3AC(S, p, n, u.AC, uABC, FloatNeg(Dot(p[1], e.ac)),
                          Dot(Cross(p[3], p[1]), n))

\* "if n[0] == 0.0 && n[1] == 0.0 && n[2] == 0.0"
updateSimplex3N(S, p, e, u, vBC, n) ==
    IF FloatIsZero(n[1]) /\ FloatIsZero(n[2]) /\ FloatIsZero(n[3]) THEN Degenerated(S)
    ELSE updateSimplex3BC(S, p, e, n, u, vBC, Dot(Cross(p[2], p[3]), n))

\* Region C
updateSimplex3C(S, p, e, u) ==
    IF LeZero(u.BC) /\ LeZero(u.AC) THEN Reduced(<<Weigh(S[3], One)>>)
    ELSE updateSimplex3N(S, p, e, u, FloatNeg(Dot(p[2], e.bc)), Cross(e.ab, e.ac))

updateSimplex3Edges(S, p, e) ==
    updateSimplex3C(S, p, e, [BC |-> Dot(p[3], e.bc), AC |-> Dot(p[3], e.ac)])

updateSimplex3(S, p) ==
    updateSimplex3Edges(S, p, [ab |-> Sub(p[2], p[1]), ac |-> Sub(p[3], p[1]),
                               bc |-> Sub(p[3], p[2])])

\* case 4, statement after statement.
\* The dot product of n with n1, n2 and n3 (u, v and w of a face)
faceWeights(n, n1, n2, n3) == [u |-> Dot(n1, n), v |-> Dot(n2, n), w |-> Dot(n3, n)]

\* Regions CBD, ACD, ADB and ABCD; in[i] is uABCD, vABCD, wABCD, xABCD
RECURSIVE hasZeroFrom(_, _)
hasZeroFrom(in, i) == i <= 4 /\ (FloatIsZero(in[i]) \/ hasZeroFrom(in, i + 1))

updateSimplex4ABCD(S, ADB, ACD, CBD, in) ==
    IF hasZeroFrom(in, 1) THEN Degenerated(S)
    ELSE IF LtZero(in[1]) /\ GtZero(CBD.u) /\ GtZero(CBD.v) /\ GtZero(CBD.w)
    THEN Reduced(<<Weigh(S[2], CBD.v), Weigh(S[3], CBD.u), Weigh(S[4], CBD.w)>>)
    ELSE IF LtZero(in[2]) /\ GtZero(ACD.u) /\ GtZero(ACD.v) /\ GtZero(ACD.w)
    THEN Reduced(<<Weigh(S[1], ACD.u), Weigh(S[3], ACD.v), Weigh(S[4], ACD.w)>>)
    ELSE IF LtZero(in[3]) /\ GtZero(ADB.u) /\ GtZero(ADB.v) /\ GtZero(ADB.w)
    THEN Reduced(<<Weigh(S[1], ADB.u), Weigh(S[2], ADB.w), Weigh(S[4], ADB.v)>>)
    ELSE Reduced([k \in 1..4 |-> Weigh(S[k], in[k])])

\* uABCD, vABCD, wABCD, xABCD, each n1.Cross(n2).Dot(n3) * volumeInverse: the
\* vectors crossed are p[q[1]] and p[q[2]], the one dotted with is p[q[3]]
insideIndices == << <<3, 4, 2>>, <<3, 1, 4>>, <<4, 1, 2>>, <<2, 1, 3>> >>
insideWeights(p, volumeInverse) ==
    [i \in 1..4 |-> FloatMul(Dot(Cross(p[insideIndices[i][1]], p[insideIndices[i][2]]),
                                 p[insideIndices[i][3]]),
                             volumeInverse)]

\* "if volume == 0.0"
updateSimplex4Volume(S, p, ADB, ACD, CBD, volume) ==
    IF FloatIsZero(volume) THEN Degenerated(S)
    ELSE updateSimplex4ABCD(S, ADB, ACD, CBD, insideWeights(p, FloatDiv(One, volume)))

\* regions DC, AD and BD
updateSimplex4Edge(S, p, e, u, v, ADB, ACD, CBD) ==
    IF LeZero(CBD.v) /\ LeZero(ACD.u) /\ GtZero(u.CD) /\ GtZero(v.CD)
    THEN Reduced(<<Weigh(S[3], u.CD), Weigh(S[4], v.CD)>>)
    ELSE IF LeZero(ACD.v) /\ LeZero(ADB.w) /\ GtZero(u.AD) /\ GtZero(v.AD)
    THEN Reduced(<<Weigh(S[1], u.AD), Weigh(S[4], v.AD)>>)
    ELSE IF LeZero(CBD.u) /\ LeZero(ADB.u) /\ GtZero(u.BD) /\ GtZero(v.BD)
    THEN Reduced(<<Weigh(S[2], u.BD), Weigh(S[4], v.BD)>>)
    ELSE updateSimplex4Volume(S, p, ADB, ACD, CBD,
                              FloatNeg(Dot(Cross(e.bc, e.ab), e.bd)))

\* The faces ADB, ACD and CBD: for each, the normal n and the vectors n1, n2
\* and n3 it is dotted with; f[i] names the face of faceWeights
faceVectors(p, e) ==
    << <<Cross(e.ad, e.ab), p[4], p[2], p[2], p[1], p[1], p[4]>>,
       <<Cross(e.ac, e.ad), p[3], p[4], p[4], p[1], p[1], p[3]>>,
       <<Cross(Mul(e.bc, MinusOne), e.cd), p[2], p[4], p[4], p[3], p[3], p[2]>> >>
weightsOfFaces(f) ==
    [i \in 1..3 |-> faceWeights(f[i][1], Cross(f[i][2], f[i][3]), Cross(f[i][4], f[i][5]),
                                Cross(f[i][6], f[i][7]))]

updateSimplex4Weights(S, p, e, u, v, w) == updateSimplex4Edge(S, p, e, u, v, w[1], w[2], w[3])

updateSimplex4Faces(S, p, e, u) ==
    updateSimplex4Weights(S, p, e, u,
                          [BD |-> FloatNeg(Dot(p[2], e.bd)), CD |-> FloatNeg(Dot(p[3], e.cd)),
                           AD |-> FloatNeg(Dot(p[1], e.ad))],
                          weightsOfFaces(faceVectors(p, e)))

\* Region D, else "ab := b.Sub(a)", ac and bc
updateSimplex4D(S, p, e, u) ==
    IF LeZero(u.BD) /\ LeZero(u.CD) /\ LeZero(u.AD) THEN Reduced(<<Weigh(S[4], One)>>)
    ELSE updateSimplex4Faces(S, p,
                             [ad |-> e.ad, bd |-> e.bd, cd |-> e.cd,
                              ab |-> Sub(p[2], p[1]), ac |-> Sub(p[3], p[1]),
                              bc |-> Sub(p[3], p[2])], u)

updateSimplex4Edges(S, p, e) ==
    updateSimplex4D(S, p, e, [BD |-> Dot(p[4], e.bd), CD |-> Dot(p[4], e.cd),
                              AD |-> Dot(p[4], e.ad)])

updateSimplex4(S, p) ==
    updateSimplex4Edges(S, p, [ad |-> Sub(p[4], p[1]), bd |-> Sub(p[4], p[2]),
                               cd |-> Sub(p[4], p[3])])

\* A size outside 1..4 is log.Panic("Must not come here!")
updateSimplex(S) ==
    CASE Len(S) = 1 -> Reduced(<<Weigh(S[1], One)>>)
      [] Len(S) = 2 -> updateSimplex2(S, coordinates(S))
      [] Len(S) = 3 -> updateSimplex3(S, coordinates(S))
      [] Len(S) = 4 -> updateSimplex4(S, coordinates(S))
      [] OTHER -> [simplex |-> S, isDegenerated |-> FALSE, panic |-> TRUE]

-----------------------------------------------------------------------------
(* Measure.updateDirection, updateDistance, updateTheOthers *)

\* case 2, from difference on
updateDirection2(a, difference) ==
    Sub(a, Mul(difference, FloatDiv(Dot(a, difference), LenSqr(difference))))

\* case 3, from n on
updateDirection3(a, n) == Mul(n, FloatDiv(Dot(n, a), LenSqr(n)))

\* A size outside 1..4 leaves Direction as it is (the switch has no default).
updateDirection(S, direction) ==
    CASE Len(S) = 1 -> S[1].coordinate
      [] Len(S) = 2 ->
            updateDirection2(S[1].coordinate, Sub(S[1].coordinate, S[2].coordinate))
      [] Len(S) = 3 ->
            updateDirection3(S[1].coordinate,
                             Cross(Sub(S[1].coordinate, S[2].coordinate),
                                   Sub(S[1].coordinate, S[3].coordinate)))
      [] Len(S) = 4 -> ZeroVec
      [] OTHER -> direction

\* Direction.Len() = math.Sqrt(Direction.LenSqr()), kept as what the root is
\* taken of
updateDistance(direction) == [neg |-> FALSE, sq |-> LenSqr(direction)]

\* "denominator += vertex.barycentricCoordinate" from the vertex of position k on
RECURSIVE SumOfWeights(_, _, _)
SumOfWeights(S, k, denominator) ==
    IF k > Len(S) THEN denominator
    ELSE SumOfWeights(S, k + 1, FloatAdd(denominator, S[k].barycentricCoordinate))

\* "Points[i] = Points[i].Add(hull[indices[i]].Mul(denominator * weight))"
\* from the vertex of position k on
RECURSIVE WeightedSum(_, _, _, _, _, _)
WeightedSum(hull, S, i, denominator, k, point) ==
    IF k > Len(S) THEN point
    ELSE WeightedSum(hull, S, i, denominator, k + 1,
                     Add(point, Mul(hull[S[k].indices[i] + 1],
                                    FloatMul(denominator, S[k].barycentricCoordinate))))

theOthers(convexes, S, denominator) ==
    [Points |-> <<WeightedSum(convexes[1], S, 1, denominator, 1, ZeroVec),
                  WeightedSum(convexes[2], S, 2, denominator, 1, ZeroVec)>>,
     Ons |-> <<{S[k].indices[1] : k \in 1..Len(S)},
               {S[k].indices[2] : k \in 1..Len(S)}>>]

\* "denominator = 1.0 / denominator": +Inf when the weights sum to 0
updateTheOthers(convexes, S) ==
    theOthers(convexes, S, FloatDiv(One, SumOfWeights(S, 1, FloatZero)))

-----------------------------------------------------------------------------
(* Comparisons of Distance *)

\* math.Inf(1) and the zero value
Inf == [neg |-> FALSE, sq |-> FloatInf(1)]
ZeroDistance == [neg |-> FALSE, sq |-> FloatZero]

\* math.Sqrt(x) < math.Sqrt(y) for x, y >= 0.  math.Sqrt rounds correctly, so
\* it keeps x <= y; and when y - x is more than y / 2^50 the roots differ by
\* more than the rounding of both, so they are computed only for closer x, y.
RootLess(x, y) ==
    /\ FloatLess(x, y)
    /\ \/ x.m = <<>>
       \/ y.m = <<>>
       \/ FloatTop(FloatSub(y, x)) >= FloatTop(y) - 48
       \/ FloatLess(FloatSqrt(x), FloatSqrt(y))

\* a < b for two float64 that are roots or negated roots; false of NaN, and
\* of -0.0 and 0.0
DistanceLess(a, b) ==
    /\ ~FloatIsNaN(a.sq)
    /\ ~FloatIsNaN(b.sq)
    /\ IF a.neg = b.neg
       THEN RootLess(IF a.neg THEN b.sq ELSE a.sq, IF a.neg THEN a.sq ELSE b.sq)
       ELSE a.neg /\ (~FloatIsZero(a.sq) \/ ~FloatIsZero(b.sq))

\* a >= b, false of NaN; a > b is DistanceLess(b, a), a <= b is DistanceGe(b, a)
DistanceGe(a, b) == ~FloatIsNaN(a.sq) /\ ~FloatIsNaN(b.sq) /\ ~DistanceLess(a, b)

-----------------------------------------------------------------------------
(* Measure.gjk *)

\* A variant of gjkDegeneratedExit that also takes Distance from the new
\* Direction, as the loop does on its other path.
gjkDegeneratedExitWithDistance(m, S, direction) ==
    [m EXCEPT !.simplex = S, !.Direction = direction,
              !.Distance = updateDistance(direction)]

\* The exit on a degenerated simplex: Direction is updated, Distance is not.
gjkDegeneratedExit(m, S, direction) == [m EXCEPT !.simplex = S, !.Direction = direction]

\* One pass through the body of the loop of gjk, statement after statement
\* (each operator takes what the statements before it computed); brk: the
\* loop was left by break.

\* Lines 101-105: lastDistance, updateDistance, the test of the new Distance
gjkAfterUpdateDistance(m, S, direction, distance) ==
    [m |-> [m EXCEPT !.simplex = S, !.Direction = direction, !.Distance = distance],
     brk |-> DistanceGe(distance, m.Distance)]

\* Lines 95-100: updateDirection follows updateSimplex on both paths, and
\* the degenerated one leaves the loop
gjkAfterUpdateDirection(m, r, direction) ==
    IF r.isDegenerated
    THEN [m |-> gjkDegeneratedExit(m, r.simplex, direction), brk |-> TRUE]
    ELSE gjkAfterUpdateDistance(m, r.simplex, direction, updateDistance(direction))

\* Line 95: updateSimplex
\* (a panic of updateSimplex ends the program: it is kept in the Measure)
gjkAfterUpdateSimplex(m, r) ==
    IF r.panic
    THEN [m |-> [m EXCEPT !.panic = TRUE], brk |-> TRUE]
    ELSE gjkAfterUpdateDirection(m, r, updateDirection(r.simplex, m.Direction))

\* Lines 90-95: the exit on a cycle (the new vertex is popped, nothing else
\* changes), else updateSimplex
gjkAfterAppend(m, S1) ==
    IF simplexHasCyclic(S1, Len(S1) - 1, 0)
    THEN [m |-> m, brk |-> TRUE]
    ELSE gjkAfterUpdateSimplex(m, updateSimplex(S1))

\* Line 88: the new vertex is appended
gjkIteration(m) ==
    gjkAfterAppend(m, Append(m.simplex, newVertex(m.ConvexHulls, m.Direction)))

RECURSIVE gjkLoop(_)
gjkNext(r) == IF r.brk THEN r.m ELSE gjkLoop(r.m)
gjkLoop(m) == IF Len(m.simplex) < 4 THEN gjkNext(gjkIteration(m)) ELSE m

\* gjk up to (not including) its final updateTheOthers
gjk(m) == gjkLoop([m EXCEPT !.simplex = <<>>, !.Distance = Inf])

-----------------------------------------------------------------------------
(* face.go *)

\* Of the Measure of a face only Distance and Direction are ever read
\* (panic: its gjk did not return).
faceOf(indices, m) ==
    [indices |-> indices,
     measure |-> [Distance |-> m.Distance, Direction |-> m.Direction,
                  panic |-> m.panic]]

newFace(S, indices) ==
    faceOf(indices, gjk([ConvexHulls |-> << <<ZeroVec>>,
                                            <<S[indices[1] + 1].coordinate,
                                              S[indices[2] + 1].coordinate,
                                              S[indices[3] + 1].coordinate>> >>,
                         Direction |-> ZeroVec,
                         Distance |-> ZeroDistance,
                         simplex |-> <<>>, panic |-> FALSE]))

getNormal(face, S) ==
    Cross(Sub(S[face.indices[2] + 1].coordinate, S[face.indices[1] + 1].coordinate),
          Sub(S[face.indices[3] + 1].coordinate, S[face.indices[1] + 1].coordinate))

-----------------------------------------------------------------------------
(* Measure.epa: the initial faces *)

\* The swap of indices[1] and indices[2] when the normal looks at the origin
\* ("face.getNormal(simplex).Dot(face.measure.Direction) < 0.0")
orientFace(face, S) ==
    IF LtZero(Dot(getNormal(face, S), face.measure.Direction))
    THEN [face EXCEPT !.indices = <<face.indices[1], face.indices[3], face.indices[2]>>]
    ELSE face

\* sort.Slice on fewer than 12 elements is an insertion sort with
\* less(i, j) = faces[i].measure.Distance > faces[j].measure.Distance
RECURSIVE sortInsert(_, _)
sortInsert(sorted, f) ==
    IF sorted = <<>> THEN <<f>>
    ELSE IF DistanceLess(sorted[Len(sorted)].measure.Distance, f.measure.Distance)
    THEN Append(sortInsert(SubSeq(sorted, 1, Len(sorted) - 1), f), sorted[Len(sorted)])
    ELSE Append(sorted, f)

RECURSIVE sortFaces(_, _)
sortFaces(fs, k) ==
    IF k = 0 THEN <<>> ELSE sortInsert(sortFaces(fs, k - 1), fs[k])

\* The faces epa starts from, as the indices of their vertices: the one face
\* of 3 vertices, or for i = 0..3 the three positions other than i, ascending;
\* a simplex size other than 3 or 4 panics.
initialIndices(S) ==
    CASE Len(S) = 3 -> << <<0, 1, 2>> >>
      [] Len(S) = 4 -> << <<1, 2, 3>>, <<0, 2, 3>>, <<0, 1, 3>>, <<0, 1, 2>> >>
      [] OTHER -> <<>>

orientedFaces(S, indices) ==
    [k \in 1..Len(indices) |-> orientFace(newFace(S, indices[k]), S)]

initialFaces(S) == sortFaces(orientedFaces(S, initialIndices(S)), Len(initialIndices(S)))

-----------------------------------------------------------------------------
(* Measure.reconstruct *)

RECURSIVE toggleEdges(_, _, _)
toggleEdges(edges, indices, j) ==
    IF j > 2 THEN edges
    ELSE LET k == (j + 1) % 3
             edgeIndices == <<indices[j + 1], indices[k + 1]>>
         IN  toggleEdges(IF edgeIndices \in edges
                         THEN edges \ {edgeIndices}
                         ELSE edges \cup {<<edgeIndices[2], edgeIndices[1]>>},
                         indices, j + 1)

\* The first loop: the faces the new vertex lies above are removed and their
\* edges toggled in reconstructEdges; i runs from the last face down.
RECURSIVE removeVisible(_, _, _, _)
removeVisible(fs, S, edges, i) ==
    IF i < 1 THEN [faces |-> fs, edges |-> edges]
    ELSE IF LeZero(Dot(getNormal(fs[i], S),
                       Sub(S[Len(S)].coordinate, S[fs[i].indices[1] + 1].coordinate)))
         THEN removeVisible(fs, S, edges, i - 1)
         ELSE removeVisible(SubSeq(fs, 1, i - 1) \o SubSeq(fs, i + 1, Len(fs)), S,
                            toggleEdges(edges, fs[i].indices, 0), i - 1)

\* The position after which a new face goes: the last face at least as far,
\* 0 (the front) when there is none.
RECURSIVE insertPosition(_, _, _)
insertPosition(fs, f, i) ==
    IF i < 1 THEN 0
    ELSE IF DistanceGe(fs[i].measure.Distance, f.measure.Distance) THEN i
    ELSE insertPosition(fs, f, i - 1)

\* A variant of insertFace that puts the new face before the face
\* insertPosition names, not after it.
insertFaceBefore(fs, f) ==
    LET p == insertPosition(fs, f, Len(fs))
    IN  IF p = 0 THEN <<f>> \o fs
        ELSE SubSeq(fs, 1, p - 1) \o <<f>> \o SubSeq(fs, p, Len(fs))

insertFace(fs, f) ==
    LET p == insertPosition(fs, f, Len(fs))
    IN  SubSeq(fs, 1, p) \o <<f>> \o SubSeq(fs, p + 1, Len(fs))

\* "for edge := range reconstructEdges": a Go map is ranged over in an
\* unspecified order, so the new faces are inserted in any order.
RECURSIVE insertInAnyOrder(_, _)
insertInAnyOrder(fs, new) ==
    IF new = {} THEN {fs}
    ELSE UNION { insertInAnyOrder(insertFace(fs, f), new \ {f}) : f \in new }

\* The set of face lists reconstruct may return; S already holds the new vertex.
reconstruct(fs, S) ==
    LET r == removeVisible(fs, S, {}, Len(fs))
        new == { newFace(S, <<edge[2], edge[1], Len(S) - 1>>) : edge \in r.edges }
    IN  insertInAnyOrder(r.faces, new)

-----------------------------------------------------------------------------
(* Measure.epa: the end, from the closest face *)

\* Lines 161-171: the simplex becomes the closest face's three vertices, is
\* reduced (the result of updateSimplex is not looked at), and Distance is
\* negated ("measure.Distance *= -1.0").
epaOutputs(r, direction, o) ==
    [simplex |-> r.simplex, Direction |-> direction,
     Distance |-> [updateDistance(direction) EXCEPT !.neg = ~@],
     Points |-> o.Points, Ons |-> o.Ons, panic |-> r.panic]

epaReduced(convexes, r, direction) ==
    epaOutputs(r, updateDirection(r.simplex, direction),
               updateTheOthers(convexes, r.simplex))

epaResult(convexes, S, fs, direction) ==
    epaReduced(convexes,
               updateSimplex(<<S[fs[Len(fs)].indices[1] + 1], S[fs[Len(fs)].indices[2] + 1],
                               S[fs[Len(fs)].indices[3] + 1]>>),
               direction)

-----------------------------------------------------------------------------
(* The state machine: a caller's Measure and the calls made on it *)

RECURSIVE Pick(_, _, _)
Pick(pool, I, k) ==
    IF k > Len(pool) THEN <<>>
    ELSE IF k \in I THEN <<Vec(pool[k])>> \o Pick(pool, I, k + 1)
    ELSE Pick(pool, I, k + 1)

\* The hulls of at most max points drawn from a pool, the empty hull included
Hulls(pool, max) ==
    { Pick(pool, I, 1) : I \in { J \in SUBSET (1..Len(pool)) : Cardinality(J) <= max } }

NoOutputs ==
    [valid |-> FALSE, entry |-> "none", Distance |-> ZeroDistance,
     Direction |-> ZeroVec, Points |-> <<ZeroVec, ZeroVec>>, Ons |-> <<{}, {}>>]

\* A Measure literal: the caller sets ConvexHulls and possibly Direction, every
\* other field has its zero value.
Init ==
    /\ ConvexHulls \in { <<h0, h1>> : h0 \in Hulls(Pool0, MaxHull0),
                                      h1 \in Hulls(Pool1, MaxHull1) }
    /\ Direction \in { Vec(d) : d \in SeedDirections }
    /\ Distance = ZeroDistance
    /\ Points = <<ZeroVec, ZeroVec>>
    /\ Ons = <<{}, {}>>
    /\ simplex = <<>>
    /\ faces = <<>>
    /\ pc = "idle"
    /\ entry = "none"
    /\ calls = 0
    /\ prev = NoOutputs
    /\ shifted = FALSE
    /\ steps = 0

\* A variant of HasEmptyHull that looks at the first hull only.
FirstHullIsEmpty == Len(ConvexHulls[1]) = 0

\* "for _, convex := range measure.ConvexHulls { if len(convex) == 0"
HasEmptyHull == \E i \in 1..2 : Len(ConvexHulls[i]) = 0

\* The head of both entry points: the return on an empty hull, else the
\* first two statements of gjk.
Enter(e) ==
    /\ pc \in {"idle", "done"}
    /\ calls < MaxCalls
    /\ entry' = e
    /\ calls' = calls + 1
    /\ prev' = IF pc = "done"
               THEN [valid |-> TRUE, entry |-> entry, Distance |-> Distance,
                     Direction |-> Direction, Points |-> Points, Ons |-> Ons]
               ELSE NoOutputs
    /\ IF HasEmptyHull
       THEN /\ Distance' = ZeroDistance
            /\ Points' = <<ZeroVec, ZeroVec>>
            /\ Ons' = <<{}, {}>>
            /\ pc' = "done"
            /\ UNCHANGED simplex
       ELSE /\ simplex' = <<>>
            /\ Distance' = Inf
            /\ pc' = "gjk"
            /\ UNCHANGED <<Points, Ons>>
    /\ steps' = 0
    /\ UNCHANGED <<ConvexHulls, Direction, faces, shifted>>

MeasureDistance == Enter("MeasureDistance")

\* A variant of afterGjk in which both entry points go on to epa.
afterGjkAlwaysEpa(e, S) == IF Len(S) >= 4 THEN "epa" ELSE "done"

\* A variant of afterGjk that goes on to epa from a simplex of two vertices.
afterGjkFromTwo(e, S) == IF e = "MeasureDistance" /\ Len(S) >= 2 THEN "epa" ELSE "done"

\* What follows gjk: MeasureDistance goes on to epa unless len(simplex) < 4,
\* MeasureNonnegativeDistance returns.
afterGjk(e, S) == IF e = "MeasureDistance" /\ Len(S) >= 4 THEN "epa" ELSE "done"

MeasureNonnegativeDistance == Enter("MeasureNonnegativeDistance")

\* One pass of the loop of gjk; when the loop ends, updateTheOthers and the
\* caller's test of len(simplex) follow in the same step.
GjkIterated(r, o) ==
    /\ simplex' = r.m.simplex
    /\ Direction' = r.m.Direction
    /\ Distance' = r.m.Distance
    /\ IF r.m.panic
       THEN /\ pc' = "panic"
            /\ UNCHANGED <<Points, Ons>>
       ELSE IF r.brk \/ Len(r.m.simplex) >= 4
       THEN /\ Points' = o.Points
            /\ Ons' = o.Ons
            /\ pc' = afterGjk(entry, r.m.simplex)
       ELSE /\ pc' = "gjk"
            /\ UNCHANGED <<Points, Ons>>

gjkThenTheOthers(r) == GjkIterated(r, updateTheOthers(ConvexHulls, r.m.simplex))

GjkIterate ==
    /\ pc = "gjk"
    /\ steps < MaxSteps
    /\ steps' = steps + 1
    /\ gjkThenTheOthers(gjkIteration([ConvexHulls |-> ConvexHulls,
                                      Direction |-> Direction,
                                      Distance |-> Distance, simplex |-> simplex,
                                      panic |-> FALSE]))
    /\ UNCHANGED <<ConvexHulls, faces, entry, calls, prev, shifted>>

\* newFace did not return for one of the faces
facesPanicked(fs) == \E k \in 1..Len(fs) : fs[k].measure.panic

\* epa up to its loop: the faces of the simplex, sorted
EpaInit ==
    /\ pc = "epa"
    /\ steps < MaxSteps
    /\ steps' = steps + 1
    /\ faces' = initialFaces(simplex)
    /\ pc' = IF Len(simplex) \in {3, 4} /\ ~facesPanicked(faces')
             THEN "epaLoop" ELSE "panic"
    /\ UNCHANGED <<ConvexHulls, Distance, Direction, Points, Ons, simplex,
                   entry, calls, prev, shifted>>

\* One pass of the loop findOuterMinDistanceFace; when it breaks, the rest of
\* epa follows in the same step.  Reading the last face of an empty list is
\* an index out of range.
EpaReturned(r) ==
    /\ simplex' = r.simplex
    /\ Direction' = r.Direction
    /\ Distance' = r.Distance
    /\ Points' = r.Points
    /\ Ons' = r.Ons
    /\ faces' = <<>>
    /\ pc' = IF r.panic THEN "panic" ELSE "done"

EpaExpanded(S) ==
    /\ simplex' = S
    /\ faces' \in reconstruct(faces, S)
    /\ pc' = IF facesPanicked(faces') THEN "panic" ELSE "epaLoop"
    /\ UNCHANGED <<Distance, Direction, Points, Ons>>

\* A variant of EpaIterated that compares the new vertex with the newest
\* simplex vertex only.
EpaIteratedNewestOnly(v) ==
    IF simplex[Len(simplex)].indices = v.indices
    THEN EpaReturned(epaResult(ConvexHulls, simplex, faces, Direction))
    ELSE EpaExpanded(Append(simplex, v))

EpaIterated(v) ==
    IF \E k \in 1..Len(simplex) : simplex[k].indices = v.indices
    THEN EpaReturned(epaResult(ConvexHulls, simplex, faces, Direction))
    ELSE EpaExpanded(Append(simplex, v))

EpaIterate ==
    /\ pc = "epaLoop"
    /\ steps < MaxSteps
    /\ steps' = steps + 1
    /\ IF faces = <<>>
       THEN /\ pc' = "panic"
            /\ UNCHANGED <<Distance, Direction, Points, Ons, simplex, faces>>
       ELSE EpaIterated(newVertex(ConvexHulls,
                                  Mul(faces[Len(faces)].measure.Direction, MinusOne)))
    /\ UNCHANGED <<ConvexHulls, entry, calls, prev, shifted>>

\* Measure_test.go, TestMeasureDistanceRandomly.
\* "measure.Distance >= 0.0": false of a negative Distance and of NaN
IsNonnegative(distance) ==
    ~FloatIsNaN(distance.sq) /\ (~distance.neg \/ FloatIsZero(distance.sq))

\* "shiftedMeasure.Distance < 0.0"
IsNegative(distance) ==
    ~FloatIsNaN(distance.sq) /\ distance.neg /\ ~FloatIsZero(distance.sq)

\* Unless MeasureDistance returned a Distance >= 0.0, the test moves every
\* point of hull 1 by -Direction ("*vertex = vertex.Sub(Direction)") and
\* measures again, Direction being left as the call returned it.
Shift ==
    /\ pc = "done"
    /\ entry = "MeasureDistance"
    /\ ~HasEmptyHull
    /\ ~shifted
    /\ calls < MaxCalls
    /\ ~IsNonnegative(Distance)
    /\ ConvexHulls' = <<ConvexHulls[1],
                        [i \in 1..Len(ConvexHulls[2]) |->
                            Sub(ConvexHulls[2][i], Direction)]>>
    /\ shifted' = TRUE
    /\ pc' = "idle"
    /\ UNCHANGED <<Distance, Direction, Points, Ons, simplex, faces,
                   entry, calls, prev, steps>>

\* A Measure is reused: between two calls the caller sets ConvexHulls again.
\* The model lets it replace one hull by an empty one.
ReplaceHull ==
    /\ pc = "done"
    /\ calls < MaxCalls
    /\ \E i \in 1..2 :
        /\ ConvexHulls[i] # <<>>
        /\ ConvexHulls' = [ConvexHulls EXCEPT ![i] = <<>>]
    /\ pc' = "idle"
    /\ UNCHANGED <<Distance, Direction, Points, Ons, simplex, faces,
                   entry, calls, prev, shifted, steps>>

Next ==
    \/ MeasureDistance
    \/ MeasureNonnegativeDistance
    \/ GjkIterate
    \/ EpaInit
    \/ EpaIterate
    \/ Shift
    \/ ReplaceHull

Spec == Init /\ [][Next]_vars

\* The step of a call under way: whichever of GjkIterate, EpaInit and
\* EpaIterate it is, it counts one more step.
CallProceeds ==
    /\ pc \in {"gjk", "epa", "epaLoop"}
    /\ steps < MaxSteps
    /\ steps' = steps + 1

\* A call runs to its end: MeasureDistance and MeasureNonnegativeDistance are
\* plain sequential functions, so a call that can make its next step makes it.
\* Whether the caller calls again, shifts a hull or replaces one is up to the
\* caller: no fairness there.
FairSpec == Spec /\ WF_steps(CallProceeds)

-----------------------------------------------------------------------------
(* newVertex on its own: two non-empty hulls and a direction of the caller's *)

\* The components of the directions newVertex is given run from
\* -MaxComponent to MaxComponent; a direction of NaN is one more.
VertexDirections ==
    { Vec(<<x, y, z>>) : x \in -MaxComponent..MaxComponent,
                         y \in -MaxComponent..MaxComponent,
                         z \in -MaxComponent..MaxComponent }
        \cup {<<FloatNaN, FloatNaN, FloatNaN>>}

VertexInit ==
    /\ ConvexHulls \in { <<h0, h1>> : h0 \in Hulls(Pool0, MaxHull0) \ {<<>>},
                                      h1 \in Hulls(Pool1, MaxHull1) \ {<<>>} }
    /\ Direction \in VertexDirections
    /\ Distance = ZeroDistance
    /\ Points = <<ZeroVec, ZeroVec>>
    /\ Ons = <<{}, {}>>
    /\ simplex = <<>>
    /\ faces = <<>>
    /\ pc = "idle"
    /\ entry = "none"
    /\ calls = 0
    /\ prev = NoOutputs
    /\ shifted = FALSE
    /\ steps = 0

\* "measure.simplex = append(measure.simplex, newVertex(...))" and no more
AppendNewVertex ==
    /\ pc = "idle"
    /\ simplex' = Append(simplex, newVertex(ConvexHulls, Direction))
    /\ pc' = "vertex"
    /\ UNCHANGED <<ConvexHulls, Distance, Direction, Points, Ons, faces,
                   entry, calls, prev, shifted, steps>>

VertexSpec == VertexInit /\ [][AppendNewVertex]_vars

-----------------------------------------------------------------------------
(* What the claims speak of: the geometry of the two hulls, computed without
   the program and without rounding, on hulls of integer points.  The
   Minkowski difference is the set of hull1[j] - hull0[i]; the hulls overlap
   when the origin lies in its convex hull, and their distance is the
   distance from the origin to that convex hull.  The point of a convex hull
   closest to the origin is the foot of the perpendicular on the affine span
   of at most three of its points (lying between them), or the origin itself
   inside a tetrahedron of four. *)

\* The integer a float64 of a pool point or of a seed direction holds
IntOf(x) == IF x.m = <<>> THEN 0 ELSE x.s * x.m[1] * Pow2(x.e)
IntVec(p) == <<IntOf(p[1]), IntOf(p[2]), IntOf(p[3])>>

IntSub(a, b) == <<a[1] - b[1], a[2] - b[2], a[3] - b[3]>>
IntDot(a, b) == a[1] * b[1] + a[2] * b[2] + a[3] * b[3]
IntCross(a, b) ==
    <<a[2] * b[3] - a[3] * b[2], a[3] * b[1] - a[1] * b[3], a[1] * b[2] - a[2] * b[1]>>
IntLenSqr(a) == IntDot(a, a)
Det(a, b, c) == IntDot(a, IntCross(b, c))

\* n / d <= p / q for denominators above 0
RatioLe(a, b) == a[1] * b[2] <= b[1] * a[2]

MinkowskiDifference(convexes) ==
    LET n1 == Len(convexes[2])
    IN  [k \in 1..(Len(convexes[1]) * n1) |->
            IntSub(IntVec(convexes[2][((k - 1) % n1) + 1]),
                   IntVec(convexes[1][((k - 1) \div n1) + 1]))]

\* Squared distances <<n, d>> (for n / d) from the origin to points of the
\* convex hull of D; the least of them is the squared distance to the convex
\* hull.
FeetOfPerpendiculars(D) ==
    LET n == Len(D)
        onPoint == { <<IntLenSqr(D[i]), 1>> : i \in 1..n }
        onSegment ==
            UNION { { <<IntLenSqr(IntCross(D[i], D[j])), IntLenSqr(IntSub(D[j], D[i]))>> :
                        j \in { j \in (i + 1)..n :
                                  /\ D[i] # D[j]
                                  /\ IntDot(D[j], IntSub(D[j], D[i])) >= 0
                                  /\ IntDot(D[i], IntSub(D[i], D[j])) >= 0 } } : i \in 1..n }
        normal(i, j, k) == IntCross(IntSub(D[j], D[i]), IntSub(D[k], D[i]))
        onTriangle ==
            UNION { UNION { { <<IntDot(normal(i, j, k), D[i]) * IntDot(normal(i, j, k), D[i]),
                                IntLenSqr(normal(i, j, k))>> :
                        k \in { k \in (j + 1)..n :
                                  /\ normal(i, j, k) # <<0, 0, 0>>
                                  /\ IntDot(IntCross(D[j], D[k]), normal(i, j, k)) >= 0
                                  /\ IntDot(IntCross(D[k], D[i]), normal(i, j, k)) >= 0
                                  /\ IntDot(IntCross(D[i], D[j]), normal(i, j, k)) >= 0 } } :
                        j \in (i + 1)..n } : i \in 1..n }
        sameSign(w) == (\A x \in w : x >= 0) \/ (\A x \in w : x <= 0)
        inTetrahedron ==
            \E i \in 1..n : \E j \in (i + 1)..n : \E k \in (j + 1)..n : \E l \in (k + 1)..n :
                LET w == { Det(D[j], D[k], D[l]), -Det(D[i], D[k], D[l]),
                           Det(D[i], D[j], D[l]), -Det(D[i], D[j], D[k]) }
                IN  w # {0} /\ sameSign(w)
    IN  onPoint \cup onSegment \cup onTriangle
            \cup (IF inTetrahedron THEN {<<0, 1>>} ELSE {})

TrueDistanceSquared(convexes) ==
    LET feet == FeetOfPerpendiculars(MinkowskiDifference(convexes))
    IN  CHOOSE r \in feet : \A q \in feet : RatioLe(r, q)

Overlap(convexes) == TrueDistanceSquared(convexes)[1] = 0

\* The distance of the hulls as the nearest float64 of the root of the
\* nearest float64 of its square
TrueDistance(convexes) ==
    FloatSqrt(FloatDiv(FloatFromInt(TrueDistanceSquared(convexes)[1]),
                       FloatFromInt(TrueDistanceSquared(convexes)[2])))

\* "Up to floating-point error": x and y differ by 2^-40 at most (the values
\* compared are below 8, and a float64 below 8 is known to 2^-50).
Tolerance == [s |-> 1, m |-> <<1>>, e |-> -40]
FloatAbs(x) == IF x.s = -1 THEN FloatNeg(x) ELSE x
FloatLe(a, b) == ~FloatIsNaN(a) /\ ~FloatIsNaN(b) /\ ~FloatLess(b, a)
\* Neither NaN nor an infinity
FloatIsFinite(a) == a.m # <<>> \/ FloatIsZero(a)
Near(x, y) == FloatLe(FloatAbs(FloatSub(x, y)), Tolerance)

\* A call of e returned on non-empty hulls
Returned(e) == pc = "done" /\ entry = e /\ ~HasEmptyHull

\* The hulls are the integer points the caller gave.
Unshifted == ~shifted

-----------------------------------------------------------------------------
(* C1 *)

\* C1: after MeasureDistance returns on non-empty hulls, Distance is negative
\* if and only if the hulls overlap.
C1_NegativeIffOverlap ==
    Returned("MeasureDistance") /\ Unshifted =>
        (IsNegative(Distance) <=> Overlap(ConvexHulls))

\* Parts of C1, to tell the two ways it fails apart.
C1_NegativeOnlyIfOverlap ==
    Returned("MeasureDistance") /\ Unshifted /\ IsNegative(Distance) =>
        Overlap(ConvexHulls)
C1_OverlapOnlyIfNegative ==
    Returned("MeasureDistance") /\ Unshifted /\ Overlap(ConvexHulls) =>
        IsNegative(Distance)

-----------------------------------------------------------------------------
(* C2 *)

\* C2: after MeasureNonnegativeDistance returns on non-empty hulls, Distance
\* is the minimum distance between the two convex hulls (up to floating-point
\* error).
C2_DistanceIsMinimum ==
    Returned("MeasureNonnegativeDistance") /\ Unshifted =>
        /\ ~IsNegative(Distance)
        /\ Near(FloatSqrt(Distance.sq), TrueDistance(ConvexHulls))

-----------------------------------------------------------------------------
(* C3 *)

\* C3: when MeasureDistance returned a negative Distance and the caller moved
\* hull 1 by minus the returned Direction, the next MeasureDistance returns a
\* Distance that is not negative.
C3_ShiftResolvesPenetration ==
    shifted /\ Returned("MeasureDistance") => ~IsNegative(Distance)

-----------------------------------------------------------------------------
(* C4 *)

\* Distance == Distance of float64: -0.0 equals 0.0, NaN equals nothing
SameDistance(a, b) ==
    /\ ~FloatIsNaN(a.sq)
    /\ FloatSqrt(a.sq) = FloatSqrt(b.sq)
    /\ (a.neg = b.neg \/ FloatIsZero(a.sq))

\* C4: the second of two successive calls of one entry point on unchanged
\* hulls returns the Distance, Direction, Points and Ons the first returned.
C4_SecondCallSameOutputs ==
    pc = "done" /\ prev.valid /\ prev.entry = entry =>
        /\ SameDistance(Distance, prev.Distance)
        /\ Direction = prev.Direction
        /\ Points = prev.Points
        /\ Ons = prev.Ons

-----------------------------------------------------------------------------
(* C5 *)

ReturnedAny == pc = "done" /\ ~HasEmptyHull

\* C5: after either entry point returns on non-empty hulls, the length of
\* Direction (Direction.Len(), the root of the sum of squares) is the absolute
\* value of Distance.
C5_DirectionLengthIsDistance ==
    ReturnedAny =>
        /\ ~VecIsNaN(Direction)
        /\ FloatSqrt(LenSqr(Direction)) = FloatSqrt(Distance.sq)

-----------------------------------------------------------------------------
(* C6 *)

\* C6: after either entry point returns on non-empty hulls, Direction is
\* Points[1] - Points[0] (up to floating-point error).
C6_DirectionIsPointsDifference ==
    ReturnedAny =>
        /\ ~VecIsNaN(Direction)
        /\ \A i \in 1..3 : Near(Sub(Points[2], Points[1])[i], Direction[i])

-----------------------------------------------------------------------------
(* C7 *)

\* C7: after either entry point returns on non-empty hulls, every vertex of
\* the simplex has a nonnegative weight and the weights have a positive sum.
C7_WeightsNonnegative ==
    ReturnedAny =>
        /\ \A k \in 1..Len(simplex) : simplex[k].barycentricCoordinate.s = 1
        /\ GtZero(SumOfWeights(simplex, 1, FloatZero))

-----------------------------------------------------------------------------
(* C8 *)

\* C8: after either entry point returns on non-empty hulls, whatever Direction
\* the call started from, Distance is finite: neither the +Inf gjk starts
\* from nor the NaN of a 0/0.
C8_DistanceFinite == ReturnedAny => FloatIsFinite(Distance.sq)

\* A call returned after gjk left its loop on a degenerated simplex, with a NaN
\* Direction (0/0 in updateDirection), and Distance is finite.
C8_Witness ==
    /\ ReturnedAny
    /\ VecIsNaN(Direction)
    /\ FloatIsFinite(Distance.sq)

-----------------------------------------------------------------------------
(* C9 *)

\* C9: MeasureNonnegativeDistance never returns a negative Distance.
C9_NonnegativeDistance ==
    pc = "done" /\ entry = "MeasureNonnegativeDistance" => IsNonnegative(Distance)

\* MeasureNonnegativeDistance returned with the full simplex of 4 vertices
\* (from which MeasureDistance goes on to epa and a negative Distance).
C9_Witness ==
    /\ pc = "done"
    /\ entry = "MeasureNonnegativeDistance"
    /\ Len(simplex) = 4
    /\ IsNonnegative(Distance)

-----------------------------------------------------------------------------
(* C10 *)

\* C10: with an empty hull neither gjk nor epa runs, and both entry points
\* return with Distance 0, both Points the zero vector and both Ons empty.
C10_EmptyHullReturn ==
    (Len(ConvexHulls[1]) = 0 \/ Len(ConvexHulls[2]) = 0) =>
        /\ pc \in {"idle", "done"}
        /\ pc = "done" =>
            /\ Distance = ZeroDistance
            /\ Points = <<ZeroVec, ZeroVec>>
            /\ Ons = <<{}, {}>>

\* A call returned on a Measure whose second hull the caller emptied after a
\* call that had left a Distance other than 0.
C10_Witness ==
    /\ pc = "done"
    /\ Len(ConvexHulls[1]) > 0
    /\ Len(ConvexHulls[2]) = 0
    /\ calls = 2
    /\ simplex # <<>>
    /\ Distance = ZeroDistance

-----------------------------------------------------------------------------
(* C11 *)

\* A call of MeasureDistance on two non-empty hulls is under way.
MeasureDistanceRuns ==
    entry = "MeasureDistance" /\ pc \in {"gjk", "epa", "epaLoop"}

\* A pass of the loop of epa that does not leave it appends one vertex to the
\* simplex, and the index pair of that vertex is the pair of no vertex the
\* simplex held before.
EpaPassAddsNewPair ==
    (pc = "epaLoop" /\ pc' = "epaLoop") =>
        /\ Len(simplex') = Len(simplex) + 1
        /\ SubSeq(simplex', 1, Len(simplex)) = simplex
        /\ \A k \in 1..Len(simplex) :
              simplex[k].indices # simplex'[Len(simplex')].indices

\* C11: for every pair of non-empty hulls and every initial Direction,
\* MeasureDistance eventually returns (the loop of gjk is left, and so is the
\* loop of epa), and every pass of the loop of epa that does not leave it adds
\* a simplex vertex whose index pair differs from all pairs already in the
\* simplex.
C11_MeasureDistanceReturns ==
    /\ MeasureDistanceRuns ~> (pc = "done")
    /\ [][EpaPassAddsNewPair]_vars

\* epa has made two passes that did not leave its loop.
C11_Witness ==
    MeasureDistanceRuns /\ pc = "epaLoop" /\ Len(simplex) >= 6

-----------------------------------------------------------------------------
(* C12 *)

\* C12: for every pair of non-empty hulls and every initial Direction, neither
\* entry point aborts: no call panics, the loop of gjk is entered with at most
\* three vertices (updateSimplex gets 1..4), epa is entered with a simplex of
\* 3 or 4 vertices, and the loop of epa never finds the face list empty.
C12_NoAbort ==
    /\ pc # "panic"
    /\ pc = "gjk" => Len(simplex) \in 0..3
    /\ pc = "epa" => Len(simplex) \in {3, 4}
    /\ pc = "epaLoop" => faces # <<>> /\ ~facesPanicked(faces)

\* The loop of epa reads the last face of a list that reconstruct returned
\* after it had removed faces and stitched new ones in.
C12_Witness ==
    /\ pc = "epaLoop"
    /\ Len(simplex) >= 5
    /\ Len(faces) >= 6
    /\ \E k \in 1..Len(faces) : faces[k].indices[3] = Len(simplex) - 1

-----------------------------------------------------------------------------
(* C13 *)

\* The cached distances never grow from one face of the list to the next.
RECURSIVE SortedByDistance(_, _)
SortedByDistance(fs, k) ==
    k >= Len(fs)
    \/ (/\ DistanceGe(fs[k].measure.Distance, fs[k + 1].measure.Distance)
        /\ SortedByDistance(fs, k + 1))

\* C13: every time the loop of epa reads the last face of the list (after the
\* initial sort and after every reconstruct), the list is sorted by
\* non-increasing cached face distance, so that no face of the polytope is
\* closer to the origin than the last one.
C13_FacesSorted ==
    pc = "epaLoop" =>
        /\ SortedByDistance(faces, 1)
        /\ \A k \in 1..Len(faces) :
              DistanceGe(faces[k].measure.Distance, faces[Len(faces)].measure.Distance)

\* After a reconstruct the list holds faces at three different distances or
\* more.
C13_Witness ==
    /\ pc = "epaLoop"
    /\ Len(simplex) >= 5
    /\ \E i, j, k \in 1..Len(faces) :
          /\ DistanceLess(faces[j].measure.Distance, faces[i].measure.Distance)
          /\ DistanceLess(faces[k].measure.Distance, faces[j].measure.Distance)

-----------------------------------------------------------------------------
(* C14 *)

\* The lowest index (from 0) among the vertices of hull whose dot product with
\* v is greatest.
LowestMaximiser(hull, v) ==
    CHOOSE i \in 0..(Len(hull) - 1) :
        /\ \A j \in 0..(Len(hull) - 1) :
              IntDot(IntVec(hull[j + 1]), v) <= IntDot(IntVec(hull[i + 1]), v)
        /\ \A j \in 0..(i - 1) :
              IntDot(IntVec(hull[j + 1]), v) < IntDot(IntVec(hull[i + 1]), v)

\* The points hull1[j] - hull0[i] of the Minkowski difference
MinkowskiPoints ==
    { IntSub(IntVec(ConvexHulls[2][j]), IntVec(ConvexHulls[1][i])) :
        i \in 1..Len(ConvexHulls[1]), j \in 1..Len(ConvexHulls[2]) }

\* newVertex was given ConvexHulls and Direction, no component of it NaN, and
\* its vertex is the last of the simplex.
VertexBuilt == pc = "vertex" /\ ~VecIsNaN(Direction)

\* The vertex has the index pair <<i0, i1>> and the coordinate
\* hull1[i1] - hull0[i0].
VertexIs(vertex, i0, i1) ==
    /\ vertex.indices = <<i0, i1>>
    /\ IntVec(vertex.coordinate)
         = IntSub(IntVec(ConvexHulls[2][i1 + 1]), IntVec(ConvexHulls[1][i0 + 1]))

\* d as integers, and -d
GivenDirection == IntVec(Direction)
OppositeDirection == IntSub(<<0, 0, 0>>, IntVec(Direction))

\* C14 as stated: the vertex newVertex(hulls, d) builds maximizes p . d over
\* the points p of the Minkowski difference, with i0 = support(hull0, -d) and
\* i1 = support(hull1, d), each the lowest index among the maximisers.
C14_VertexMaximizes ==
    VertexBuilt =>
        /\ VertexIs(simplex[Len(simplex)],
                    LowestMaximiser(ConvexHulls[1], OppositeDirection),
                    LowestMaximiser(ConvexHulls[2], GivenDirection))
        /\ \A p \in MinkowskiPoints :
              IntDot(p, GivenDirection)
                <= IntDot(IntVec(simplex[Len(simplex)].coordinate), GivenDirection)

\* C14, amended: the vertex newVertex(hulls, d) builds minimizes p . d over the
\* points p of the Minkowski difference, with i0 = support(hull0, d) and
\* i1 = support(hull1, -d), each the lowest index among the maximisers; when
\* d is NaN both indices are 0.
C14_VertexMinimizes ==
    /\ VertexBuilt =>
        /\ VertexIs(simplex[Len(simplex)],
                    LowestMaximiser(ConvexHulls[1], GivenDirection),
                    LowestMaximiser(ConvexHulls[2], OppositeDirection))
        /\ \A p \in MinkowskiPoints :
              IntDot(IntVec(simplex[Len(simplex)].coordinate), GivenDirection)
                <= IntDot(p, GivenDirection)
    /\ pc = "vertex" /\ VecIsNaN(Direction) => VertexIs(simplex[Len(simplex)], 0, 0)

\* The vertex was built for a direction in which the Minkowski difference has
\* a point further than the vertex, and in hull 0 a vertex of a higher index
\* ties with the one chosen.
C14_Witness ==
    /\ VertexBuilt
    /\ \E p \in MinkowskiPoints :
          IntDot(p, GivenDirection)
            > IntDot(IntVec(simplex[Len(simplex)].coordinate), GivenDirection)
    /\ \E j \in 1..Len(ConvexHulls[1]) :
          /\ j - 1 > simplex[Len(simplex)].indices[1]
          /\ IntDot(IntVec(ConvexHulls[1][j]), GivenDirection)
               = IntDot(IntVec(ConvexHulls[1][simplex[Len(simplex)].indices[1] + 1]),
                        GivenDirection)

====
